---- MODULE Spec2Model ----
(***************************************************************************)
(* Model of everyclass/server/calendar/repo/calendar_token.py:             *)
(*   - the calendar_tokens table (PostgreSQL) and the four functions that  *)
(*     read and write it: insert_calendar_token, update_last_used_time,    *)
(*     reset_tokens, find_calendar_token;                                  *)
(*   - the redis-backed leaky bucket use_cache.                            *)
(***************************************************************************)
EXTENDS Integers, Sequences, FiniteSets, TLC

(***************************************************************************)
(* Bounds and sample inputs                                                *)
(***************************************************************************)
\* last reading of datetime.datetime.now() the token-store runs reach
MaxDbNow == 1

\* the gate's clock runs over the hours 0..MaxHours
MaxHours == 1
\* the latest completed use_cache calls kept per file name
MaxHist == 4

\* people_type enum of the type column
Kinds == {"student", "teacher"}
Identifiers == {"2020001", "T0042"}
Semesters == {"2023-Fall", "2024-Spring"}
\* the values uuid.uuid4() may draw (a two-element slice of the 128-bit domain)
UUIDs == {1, 2}
\* Python None / SQL NULL
None == "None"
\* a string uuid.UUID() cannot parse
BadToken == "not-a-uuid"

(***************************************************************************)
(* uuid conversions                                                        *)
(***************************************************************************)
\* str(uuid): the canonical 36-character form
uuid_str(u) ==
    CASE u = 1 -> "00000000-0000-4000-8000-000000000001"
      [] u = 2 -> "00000000-0000-4000-8000-000000000002"
      [] OTHER -> "00000000-0000-4000-8000-0000000000ff"

TokenStrings == {uuid_str(u) : u \in UUIDs}

\* uuid.UUID(s) succeeds exactly on well-formed strings
uuid_parses(s) == \E u \in UUIDs : uuid_str(u) = s

\* uuid.UUID(s): the uuid whose text is s
uuid_UUID(s) == CHOOSE u \in UUIDs : uuid_str(u) = s

(***************************************************************************)
(* Values returned to the caller                                           *)
(***************************************************************************)
Return(v) == [tag |-> "return", value |-> v]
ReturnNone == [tag |-> "return_none"]
Raise(e) == [tag |-> "raise", exc |-> e]

\* Python truthiness of an optional string argument
Truthy(x) == x # None /\ x # ""

\* SQL "a = b": NULL on either side never matches
SqlEq(a, b) == a # None /\ b # None /\ a = b

\* nullable timestamp column: <<>> is NULL, <<t>> is the timestamp t
NoTime == <<>>
SomeTime(t) == <<t>>

VARIABLES
    calendar_tokens,   \* rows of the calendar_tokens table
    dbnow,             \* datetime.datetime.now()
    last,              \* the last token-store call: its outcome, and the
                       \* arguments of a writing call
    revoked            \* tokens whose rows a reset_tokens call was to delete,
                       \* not inserted again since

VARIABLES
    redis,             \* the redis keyspace: key -> stored bytes
    now,               \* int(time.time())
    call,              \* per worker: where its use_cache call stands, its
                       \* locals, and the clock reading of its window test
    hist               \* per traced file name (its domain): the latest
                       \* MaxHist completed calls

storeVars == <<calendar_tokens, dbnow, last, revoked>>
gateVars == <<redis, now, call, hist>>
vars == <<calendar_tokens, dbnow, last, revoked, redis, now, call, hist>>

(***************************************************************************)
(* use_cache: the leaky bucket in redis                                    *)
(***************************************************************************)
SECONDS_IN_HOUR == 60 * 60

\* workers that may be inside use_cache, and the ics file names they ask for
Workers == {"w1", "w2"}
Filenames == {"f", "g"}
\* the file names whose completed calls are kept in hist
Traced == {"f"}

\* the clock readings the runs pass through: the first and the last second of
\* each hour
Instants ==
    {h * SECONDS_IN_HOUR + d : h \in 0..MaxHours, d \in {0, SECONDS_IN_HOUR - 1}}

redis_prefix == "ec_sv"
\* f"{redis_prefix}:cal_tkn:{filename}"
Key(filename) == <<redis_prefix, "cal_tkn", filename>>

\* redis.get: <<>> is nil, <<b>> the bytes b
Nil == <<>>
redis_get(kv, key) == IF key \in DOMAIN kv THEN <<kv[key]>> ELSE Nil
redis_set(kv, key, value) ==
    [k \in DOMAIN kv \cup {key} |-> IF k = key THEN value ELSE kv[k]]

DigitChars == <<"0", "1", "2", "3", "4", "5", "6", "7", "8", "9">>

RECURSIVE NatStr(_)
NatStr(n) ==
    IF n < 10 THEN <<DigitChars[n + 1]>>
    ELSE Append(NatStr(n \div 10), DigitChars[(n % 10) + 1])

\* str(n) of an int: decimal digits, "-" in front of a negative one
int_str(n) == IF n < 0 THEN <<"-">> \o NatStr(-n) ELSE NatStr(n)

\* the two numbers in the wrong order
FormatValue_swapped(timestamp, times) == int_str(times) \o <<",">> \o int_str(timestamp)

\* f"{timestamp},{times}"
FormatValue(timestamp, times) == int_str(timestamp) \o <<",">> \o int_str(times)

RECURSIVE split(_)
\* s.split(",")
split(s) ==
    IF \A i \in 1..Len(s) : s[i] # ","
    THEN <<s>>
    ELSE LET i == CHOOSE j \in 1..Len(s) :
                      s[j] = "," /\ \A k \in 1..(j - 1) : s[k] # ","
         IN  <<SubSeq(s, 1, i - 1)>> \o split(SubSeq(s, i + 1, Len(s)))

RECURSIVE StrNat(_)
StrNat(ds) ==
    IF ds = <<>> THEN 0
    ELSE StrNat(SubSeq(ds, 1, Len(ds) - 1)) * 10
           + (CHOOSE d \in 0..9 : DigitChars[d + 1] = ds[Len(ds)])

\* int(s) of a decimal string
str_int(s) == IF s # <<>> /\ s[1] = "-" THEN 0 - StrNat(Tail(s)) ELSE StrNat(s)

\* timestamp, times = map(int, r.decode().split(","))
ParseValue(bytes) ==
    LET parts == split(bytes)
    IN  [timestamp |-> str_int(parts[1]), times |-> str_int(parts[2])]

\* set_current granting one credit
set_current_one(kv, key, t) == redis_set(kv, key, FormatValue(t, 1))

\* set_current: redis.set(key, f"{int(time.time())},2")
set_current(kv, key, t) == redis_set(kv, key, FormatValue(t, 2))

\* the window test with <= in place of <
InWindow_inclusive(t, timestamp) == t - timestamp <= SECONDS_IN_HOUR

\* the window test with its operands exchanged
InWindow_swapped(t, timestamp) == timestamp - t < SECONDS_IN_HOUR

\* int(time.time()) - timestamp < SECONDS_IN_HOUR
InWindow(t, timestamp) == t - timestamp < SECONDS_IN_HOUR

\* the credit test without the decrement
LastCredit_zero(times) == times = 0

\* the credit test with < in place of ==
LastCredit_negative(times) == times - 1 < 0

\* the credit test one credit early
LastCredit_early(times) == times - 2 = 0

\* times - 1 == 0
LastCredit(times) == times - 1 = 0

\* not r: None, or empty bytes
NotR(r) == r = Nil \/ r[1] = <<>>

Idle == [pc |-> "idle"]

InitGate ==
    /\ redis = <<>>
    /\ now = 0
    /\ call = [w \in Workers |-> Idle]
    /\ hist = [f \in Traced |-> <<>>]

\* the call of worker w, its locals being c, returns ret; the keyspace is kv
\* from then on
Returned(w, c, ret, kv) ==
    LET e == [done |-> now, ret |-> ret, seen |-> c.r,
              after |-> redis_get(kv, Key(c.filename))]
    IN  /\ call' = [call EXCEPT ![w] =
                       [pc |-> "returned", filename |-> c.filename, r |-> c.r,
                        ret |-> ret, checked |-> c.checked]]
        /\ hist' = IF c.filename \in DOMAIN hist
                   THEN LET h == Append(hist[c.filename], e)
                        IN  [hist EXCEPT ![c.filename] =
                                IF Len(h) > MaxHist THEN Tail(h) ELSE h]
                   ELSE hist

\* r = redis.get(key)
UseCacheGet(w, filename) ==
    /\ call[w].pc = "idle"
    /\ call' = [call EXCEPT ![w] = [pc |-> "got", filename |-> filename,
                                    r |-> redis_get(redis, Key(filename))]]
    /\ UNCHANGED <<redis, now, hist>>

\* the tests on r, on the window and on times; the expired branch returns here
UseCacheCheck(w) ==
    LET c == call[w]
    IN  /\ c.pc = "got"
        /\ IF NotR(c.r)
           THEN /\ call' = [call EXCEPT ![w] =
                               [c EXCEPT !.pc = "set_current"]
                                   @@ [ret |-> TRUE, checked |-> NoTime]]
                /\ UNCHANGED <<redis, now, hist>>
           ELSE LET v == ParseValue(c.r[1])
                IN  IF InWindow(now, v.timestamp)
                    THEN IF LastCredit(v.times)
                         THEN /\ call' = [call EXCEPT ![w] =
                                     [c EXCEPT !.pc = "set_current"]
                                         @@ [ret |-> FALSE, checked |-> SomeTime(now)]]
                              /\ UNCHANGED <<redis, now, hist>>
                         ELSE /\ call' = [call EXCEPT ![w] =
                                     [c EXCEPT !.pc = "set_decrement"]
                                         @@ [timestamp |-> v.timestamp, times |-> v.times,
                                             checked |-> SomeTime(now)]]
                              /\ UNCHANGED <<redis, now, hist>>
                    ELSE /\ Returned(w, c @@ [checked |-> SomeTime(now)], TRUE, redis)
                         /\ UNCHANGED <<redis, now>>

\* set_current(), then return True or False
UseCacheSetCurrent(w) ==
    LET c == call[w]
        kv == set_current(redis, Key(c.filename), now)
    IN  /\ c.pc = "set_current"
        /\ redis' = kv
        /\ Returned(w, c, c.ret, kv)
        /\ UNCHANGED now

\* redis.set(key, f"{timestamp},{times - 1}"), then return True
UseCacheSetDecrement(w) ==
    LET c == call[w]
        kv == redis_set(redis, Key(c.filename), FormatValue(c.timestamp, c.times - 1))
    IN  /\ c.pc = "set_decrement"
        /\ redis' = kv
        /\ Returned(w, c, TRUE, kv)
        /\ UNCHANGED now

\* the caller has the returned value; the worker is free for the next call
UseCacheExit(w) ==
    /\ call[w].pc = "returned"
    /\ call' = [call EXCEPT ![w] = Idle]
    /\ UNCHANGED <<redis, now, hist>>

\* time passes
Advance ==
    /\ \E t \in Instants : t > now /\ now' = t
    /\ UNCHANGED <<redis, call, hist>>

(***************************************************************************)
(* init_table: empty table, unique index idx_token on token                *)
(***************************************************************************)
\* a plain (non-unique) index on token accepts every row
idx_token_plain(tbl, u) == TRUE

\* CREATE UNIQUE INDEX idx_token: does the index accept a row with token u?
idx_token(tbl, u) == \A r \in tbl : r.token # u

init_table == calendar_tokens = {}

Init ==
    /\ init_table
    /\ dbnow = 0
    /\ last = [op |-> "init_table"]
    /\ revoked = {}
    /\ InitGate

(***************************************************************************)
(* insert_calendar_token                                                   *)
(***************************************************************************)
\* the INSERT with identifier and semester bound in the wrong order
InsertedRow_swapped(resource_type, semester, identifier, token, t) ==
    [type |-> resource_type, identifier |-> semester, semester |-> identifier,
     token |-> token, create_time |-> t, last_used_time |-> NoTime]

\* the row of the INSERT statement; last_used_time is not in the column list
InsertedRow(resource_type, semester, identifier, token, t) ==
    [type |-> resource_type, identifier |-> identifier, semester |-> semester,
     token |-> token, create_time |-> t, last_used_time |-> NoTime]

insert_calendar_token(resource_type, semester, identifier) ==
    \E token \in UUIDs :
        LET row == InsertedRow(resource_type, semester, identifier, token, dbnow)
            ok == idx_token(calendar_tokens, token)
        IN  /\ calendar_tokens' = IF ok THEN calendar_tokens \cup {row}
                                        ELSE calendar_tokens
            /\ last' = [op |-> "insert_calendar_token",
                        resource_type |-> resource_type, semester |-> semester,
                        identifier |-> identifier, at |-> dbnow,
                        generated |-> token,
                        out |-> IF ok THEN Return(uuid_str(token))
                                      ELSE Raise("UniqueViolation")]
            /\ revoked' = IF ok THEN {x \in revoked : x.token # token}
                                ELSE revoked
            /\ UNCHANGED dbnow

(***************************************************************************)
(* update_last_used_time                                                   *)
(***************************************************************************)
\* an upsert: a token without a row gets one
UpdateRows_upsert(tbl, u, t) ==
    IF \E r \in tbl : r.token = u
    THEN {IF r.token = u THEN [r EXCEPT !.last_used_time = SomeTime(t)] ELSE r
            : r \in tbl}
    ELSE tbl \cup {[type |-> "student", identifier |-> "", semester |-> "",
                    token |-> u, create_time |-> t, last_used_time |-> SomeTime(t)]}

\* the UPDATE without its WHERE clause
UpdateRows_all(tbl, u, t) ==
    {[r EXCEPT !.last_used_time = SomeTime(t)] : r \in tbl}

\* UPDATE calendar_tokens SET last_used_time = t WHERE token = u
UpdateRows(tbl, u, t) ==
    {IF r.token = u THEN [r EXCEPT !.last_used_time = SomeTime(t)] ELSE r
        : r \in tbl}

update_last_used_time(token) ==
    IF uuid_parses(token)
    THEN LET u == uuid_UUID(token)
         IN  /\ calendar_tokens' = UpdateRows(calendar_tokens, u, dbnow)
             /\ last' = [op |-> "update_last_used_time", token |-> token,
                         at |-> dbnow,
                         rowcount |-> Cardinality({r \in calendar_tokens : r.token = u}),
                         out |-> ReturnNone]
             /\ UNCHANGED <<dbnow, revoked>>
    ELSE /\ last' = [op |-> "update_last_used_time", token |-> token,
                     at |-> dbnow, rowcount |-> 0, out |-> Raise("ValueError")]
         /\ UNCHANGED <<calendar_tokens, dbnow, revoked>>

(***************************************************************************)
(* reset_tokens                                                            *)
(***************************************************************************)
\* a DELETE that stops after the first matching row
DeleteRows_first(tbl, student_id, typ) ==
    LET hit == {r \in tbl : SqlEq(r.identifier, student_id) /\ SqlEq(r.type, typ)}
    IN  IF hit = {} THEN tbl ELSE tbl \ {CHOOSE r \in hit : TRUE}

\* a DELETE that removes the matching rows of one semester only
DeleteRows_one_semester(tbl, student_id, typ) ==
    LET hit == {r \in tbl : SqlEq(r.identifier, student_id) /\ SqlEq(r.type, typ)}
    IN  IF hit = {} THEN tbl
        ELSE LET s == CHOOSE x \in {r.semester : r \in hit} : TRUE
             IN  tbl \ {r \in hit : r.semester = s}

\* a DELETE whose WHERE clause leaves out the type
DeleteRows_any_type(tbl, student_id, typ) ==
    {r \in tbl : ~SqlEq(r.identifier, student_id)}

\* DELETE FROM calendar_tokens WHERE identifier = student_id AND type = typ
DeleteRows(tbl, student_id, typ) ==
    {r \in tbl : ~(SqlEq(r.identifier, student_id) /\ SqlEq(r.type, typ))}

\* typ defaults to "student" when the caller leaves it out
Omitted == "omitted"
TypArg(arg) == IF arg = Omitted THEN "student" ELSE arg

reset_tokens(student_id, arg) ==
    LET typ == TypArg(arg)
        target == {r \in calendar_tokens : r.identifier = student_id /\ r.type = typ}
    IN  /\ calendar_tokens' = DeleteRows(calendar_tokens, student_id, typ)
        /\ last' = [op |-> "reset_tokens", student_id |-> student_id, typ |-> typ,
                    given |-> arg, rowcount |-> Cardinality(target),
                    out |-> ReturnNone]
        /\ revoked' = revoked \cup
               {[token |-> r.token, used |-> r.last_used_time # NoTime] : r \in target}
        /\ UNCHANGED dbnow

(***************************************************************************)
(* find_calendar_token                                                     *)
(***************************************************************************)
\* _parse: the first four columns of the fetched row
parse(result) ==
    [type |-> result.type, identifier |-> result.identifier,
     semester |-> result.semester, token |-> result.token]

\* result[0] of fetchall(): no ORDER BY, so any fetched row may come first
FirstOrNone(rows) ==
    IF rows = {} THEN {ReturnNone} ELSE {Return(parse(r)) : r \in rows}

\* the set of outcomes the call may have in the current table
find_calendar_token(tid, sid, semester, token) ==
    IF Truthy(token)
    THEN IF uuid_parses(token)
         THEN FirstOrNone({r \in calendar_tokens : r.token = uuid_UUID(token)})
         ELSE {Raise("ValueError")}
    ELSE IF (Truthy(tid) \/ Truthy(sid)) /\ Truthy(semester)
    THEN FirstOrNone({r \in calendar_tokens :
                        /\ SqlEq(r.type, IF Truthy(tid) THEN "teacher" ELSE "student")
                        /\ SqlEq(r.identifier, tid)
                        /\ SqlEq(r.semester, semester)})
    ELSE {Raise("ValueError")}

\* the arguments a caller may pass
FindArgs ==
    (Identifiers \cup {None}) \X (Identifiers \cup {None})
        \X (Semesters \cup {None}) \X (TokenStrings \cup {BadToken, None})

\* a call with any arguments; the table is only read
FindCalendarToken ==
    /\ \E o \in UNION {find_calendar_token(a[1], a[2], a[3], a[4]) : a \in FindArgs} :
          last' = [op |-> "find_calendar_token", out |-> o]
    /\ UNCHANGED <<calendar_tokens, dbnow, revoked>>

(***************************************************************************)
(* the wall clock read by datetime.datetime.now()                          *)
(***************************************************************************)
TickDb ==
    /\ dbnow < MaxDbNow
    /\ dbnow' = dbnow + 1
    /\ UNCHANGED <<calendar_tokens, last, revoked>>
    /\ UNCHANGED gateVars

(***************************************************************************)
(* Token store specification                                               *)
(***************************************************************************)
Insert ==
    /\ \E k \in Kinds, s \in Semesters, i \in Identifiers :
          insert_calendar_token(k, s, i)
    /\ UNCHANGED gateVars
Update ==
    /\ \E t \in TokenStrings \cup {BadToken} : update_last_used_time(t)
    /\ UNCHANGED gateVars
Reset ==
    /\ \E i \in Identifiers, a \in Kinds \cup {Omitted} : reset_tokens(i, a)
    /\ UNCHANGED gateVars
Find == FindCalendarToken /\ UNCHANGED gateVars

Next == Insert \/ Update \/ Reset \/ Find \/ TickDb

Spec == Init /\ [][Next]_vars

(***************************************************************************)
(* Refresh gate specification: calls of use_cache one after the other      *)
(***************************************************************************)
NoCallInFlight == \A w \in Workers : call[w].pc = "idle"

GetSeq ==
    /\ NoCallInFlight
    /\ \E w \in Workers, f \in Filenames : UseCacheGet(w, f)
    /\ UNCHANGED storeVars
Check == (\E w \in Workers : UseCacheCheck(w)) /\ UNCHANGED storeVars
SetCurrent == (\E w \in Workers : UseCacheSetCurrent(w)) /\ UNCHANGED storeVars
SetDecrement == (\E w \in Workers : UseCacheSetDecrement(w)) /\ UNCHANGED storeVars
Exit == (\E w \in Workers : UseCacheExit(w)) /\ UNCHANGED storeVars
Clock == Advance /\ UNCHANGED storeVars

NextGate == GetSeq \/ Check \/ SetCurrent \/ SetDecrement \/ Exit \/ Clock

SpecGate == Init /\ [][NextGate]_vars

(***************************************************************************)
(* Refresh gate specification: calls of use_cache overlapping in time      *)
(***************************************************************************)
GetAny ==
    /\ \E w \in Workers, f \in Filenames : UseCacheGet(w, f)
    /\ UNCHANGED storeVars

NextGateConc == GetAny \/ Check \/ SetCurrent \/ SetDecrement \/ Exit \/ Clock

\* the overlapping runs keep no history of completed calls
InitConc ==
    /\ init_table
    /\ dbnow = 0
    /\ last = [op |-> "init_table"]
    /\ revoked = {}
    /\ redis = <<>>
    /\ now = 0
    /\ call = [w \in Workers |-> Idle]
    /\ hist = <<>>

SpecGateConc == InitConc /\ [][NextGateConc]_vars

(***************************************************************************)
(* Calls one after the other, every started call running to its return     *)
(***************************************************************************)
SpecGateFair ==
    /\ SpecGate
    /\ WF_vars(Check)
    /\ WF_vars(SetCurrent)
    /\ WF_vars(SetDecrement)
    /\ WF_vars(Exit)

(***************************************************************************)
(* Properties of the token store                                           *)
(***************************************************************************)
\* Lookup by token, and by (kind, identifier, semester): the keyword the
\* caller uses for the identifier is tid for a teacher and sid for a student
LookupByToken(t) == find_calendar_token(None, None, None, t)
LookupByTriple(kind, identifier, semester) ==
    IF kind = "teacher"
    THEN find_calendar_token(identifier, None, semester, None)
    ELSE find_calendar_token(None, identifier, semester, None)

\* the last-used time a returned document carries, NoTime when it has none
LastUsedOf(doc) ==
    IF "last_used_time" \in DOMAIN doc THEN doc.last_used_time ELSE NoTime

RowsOf(kind, identifier) ==
    {r \in calendar_tokens : r.type = kind /\ r.identifier = identifier}

\* C1: right after insert_calendar_token(kind, semester, identifier) returned
\* the token t, every outcome of a lookup by t is a document whose type,
\* identifier and semester are the inserted ones and that carries no last-used
\* time; the stored row's last_used_time is NULL.
C1_IssueThenLookup ==
    (last.op = "insert_calendar_token" /\ last.out.tag = "return") =>
        /\ \A o \in LookupByToken(last.out.value) :
              /\ o.tag = "return"
              /\ o.value.type = last.resource_type
              /\ o.value.identifier = last.identifier
              /\ o.value.semester = last.semester
              /\ LastUsedOf(o.value) = NoTime
        /\ \A r \in calendar_tokens :
              r.token = uuid_UUID(last.out.value) => r.last_used_time = NoTime

C1_Witness ==
    /\ last.op = "insert_calendar_token"
    /\ last.out.tag = "return"
    /\ last.resource_type = "teacher"
    /\ Cardinality(calendar_tokens) = 2

\* C2: a lookup by (kind, identifier, semester) returns a document with that
\* triple whenever a row with the triple is stored, and None exactly when no
\* row has it, for both kinds.
C2_TripleLookup ==
    \A k \in Kinds, i \in Identifiers, s \in Semesters :
        LET stored == {r \in RowsOf(k, i) : r.semester = s}
        IN  \A o \in LookupByTriple(k, i, s) :
                IF stored = {}
                THEN o.tag = "return_none"
                ELSE /\ o.tag = "return"
                     /\ o.value.type = k
                     /\ o.value.identifier = i
                     /\ o.value.semester = s

\* C3: right after reset_tokens(identifier, kind) the table has no row of that
\* kind and identifier and a lookup by the triple returns None for every
\* semester; rows of a (kind, identifier) only come back by an
\* insert_calendar_token for that kind and identifier.
C3_AfterRevoke ==
    last.op = "reset_tokens" =>
        /\ RowsOf(last.typ, last.student_id) = {}
        /\ \A s \in Semesters :
              \A o \in LookupByTriple(last.typ, last.student_id, s) :
                  o.tag = "return_none"

C3_OnlyIssueBringsBack ==
    \A k \in Kinds, i \in Identifiers :
        (RowsOf(k, i) = {} /\ RowsOf(k, i)' # {}) =>
            /\ last'.op = "insert_calendar_token"
            /\ last'.resource_type = k
            /\ last'.identifier = i

C3_RevokeRemovesAll == [](C3_AfterRevoke) /\ [][C3_OnlyIssueBringsBack]_vars

C3_Witness == last.op = "reset_tokens" /\ last.rowcount = 2

\* C4: a token whose row reset_tokens was to delete is absent from a lookup by
\* token, whatever update_last_used_time calls came before or come after, as
\* long as uuid4 does not draw the same value again.
C4_RevokedStaysAbsent ==
    \A x \in revoked :
        \A o \in LookupByToken(uuid_str(x.token)) : o.tag = "return_none"

C4_Witness ==
    /\ last.op = "update_last_used_time"
    /\ \E x \in revoked : x.used /\ uuid_str(x.token) = last.token

\* C5: a lookup given both a token and a triple, or neither, raises
\* ValueError; it returns only when exactly one of the two is given.
C5_ExactlyOneMode ==
    \A a \in FindArgs :
        LET byToken == a[4] # None
            byTriple == (a[1] # None \/ a[2] # None) /\ a[3] # None
        IN  (byToken <=> byTriple) =>
                \A o \in find_calendar_token(a[1], a[2], a[3], a[4]) :
                    o.tag = "raise" /\ o.exc = "ValueError"

\* C6: right after update_last_used_time(t) at time c on a stored token, a
\* lookup by t returns a document whose last-used time is present and >= c.
C6_RecordUseThenLookup ==
    (last.op = "update_last_used_time" /\ last.rowcount > 0) =>
        \A o \in LookupByToken(last.token) :
            /\ o.tag = "return"
            /\ LastUsedOf(o.value) # NoTime
            /\ LastUsedOf(o.value)[1] >= last.at

\* C7: update_last_used_time on a well-formed token that has no row raises
\* NotFound.
C7_NotFoundSignalled ==
    (/\ last.op = "update_last_used_time"
     /\ uuid_parses(last.token)
     /\ last.rowcount = 0) =>
        last.out.tag = "raise" /\ last.out.exc = "NotFound"

\* C8: no two rows have the same token; an insert whose uuid4 value is the
\* token of a stored row raises the unique violation and leaves the table as
\* it was.
C8_Unique ==
    \A r1, r2 \in calendar_tokens : r1.token = r2.token => r1 = r2

C8_ConflictStep ==
    (/\ last' # last
     /\ last'.op = "insert_calendar_token"
     /\ \E r \in calendar_tokens : r.token = last'.generated) =>
        /\ last'.out.tag = "raise"
        /\ last'.out.exc = "UniqueViolation"
        /\ calendar_tokens' = calendar_tokens

C8_UniqueTokens == [](C8_Unique) /\ [][C8_ConflictStep]_vars

C8_Witness ==
    /\ last.op = "insert_calendar_token"
    /\ last.out.tag = "raise"
    /\ Cardinality(calendar_tokens) = 2


\* C13: reset_tokens returns normally whatever it matches; with no matching
\* row it leaves the table as it was, and right after a reset_tokens the same
\* DELETE again changes nothing.
C13_SecondIsNoOp ==
    last.op = "reset_tokens" =>
        /\ last.out.tag = "return_none"
        /\ DeleteRows(calendar_tokens, last.student_id, last.typ) = calendar_tokens

C13_ZeroMatchStep ==
    (/\ last' # last
     /\ last'.op = "reset_tokens"
     /\ RowsOf(last'.typ, last'.student_id) = {}) =>
        calendar_tokens' = calendar_tokens

C13_RevokeIdempotent == [](C13_SecondIsNoOp) /\ [][C13_ZeroMatchStep]_vars

C13_Witness ==
    /\ last.op = "reset_tokens"
    /\ last.rowcount = 0
    /\ calendar_tokens # {}

\* the columns of a row that are set at issuance
SameIssue(r1, r2) ==
    /\ r1.type = r2.type
    /\ r1.identifier = r2.identifier
    /\ r1.semester = r2.semester
    /\ r1.token = r2.token
    /\ r1.create_time = r2.create_time

\* C16: in every step a stored row either stays, with the type, identifier,
\* semester, token and create_time it has, or is removed by a reset_tokens for
\* its identifier and type; its last_used_time changes only in an
\* update_last_used_time for its token, and that call adds and removes no row.
C16_RowStep ==
    /\ \A r \in calendar_tokens :
          LET kept == {r2 \in calendar_tokens' : r2.token = r.token}
          IN  /\ kept = {} =>
                    /\ last'.op = "reset_tokens"
                    /\ last'.student_id = r.identifier
                    /\ last'.typ = r.type
              /\ \A r2 \in kept :
                    /\ SameIssue(r, r2)
                    /\ r2.last_used_time # r.last_used_time =>
                          /\ last'.op = "update_last_used_time"
                          /\ last'.token = uuid_str(r.token)
    /\ (last' # last /\ last'.op = "update_last_used_time") =>
          {r.token : r \in calendar_tokens'} = {r.token : r \in calendar_tokens}

C16_RecordFrame == [][C16_RowStep]_vars

C16_Witness ==
    /\ last.op = "update_last_used_time"
    /\ last.rowcount = 1
    /\ \E r1, r2 \in calendar_tokens :
          /\ uuid_str(r1.token) = last.token
          /\ r1.last_used_time = SomeTime(last.at)
          /\ r1.create_time < last.at
          /\ r2.token # r1.token
          /\ r2.last_used_time = NoTime

\* C17: reset_tokens(identifier, kind) removes nothing but rows of that
\* identifier and kind, the kind being student when the caller leaves it out:
\* every other row is in the table afterwards, and no row is added.
C17_RevokeStep ==
    (last' # last /\ last'.op = "reset_tokens") =>
        LET kind == IF last'.given = Omitted THEN "student" ELSE last'.given
        IN  /\ calendar_tokens' \subseteq calendar_tokens
            /\ \A r \in calendar_tokens :
                  (r.identifier # last'.student_id \/ r.type # kind) =>
                      r \in calendar_tokens'

C17_RevokeFrame == [][C17_RevokeStep]_vars

C17_Witness ==
    /\ last.op = "reset_tokens"
    /\ last.given = Omitted
    /\ last.rowcount >= 1
    /\ \E r \in calendar_tokens :
          r.type = "teacher" /\ r.identifier = last.student_id

(***************************************************************************)
(* Properties of the refresh gate, calls one after the other               *)
(***************************************************************************)
\* the value stored for a file name, parsed
Stored(f) == ParseValue(redis[Key(f)])
HasState(f) == Key(f) \in DOMAIN redis

\* the returns of the first four calls on a fresh key inside one hour
Expected == <<TRUE, TRUE, FALSE, TRUE>>

\* C9: of the calls on a key that had no stored value, those among the first
\* four that return within one hour of the first return True, True, False,
\* True in that order; the third leaves (its own clock reading, 2) in redis
\* and the fourth leaves times = 1.
C9_FourCalls ==
    \A f \in Traced :
        LET h == hist[f]
        IN  (Len(h) >= 1 /\ h[1].seen = Nil) =>
                \A n \in 1..Len(h) :
                    (n <= 4 /\ h[n].done - h[1].done < SECONDS_IN_HOUR) =>
                        /\ h[n].ret = Expected[n]
                        /\ n = 3 => /\ h[n].after # Nil
                                    /\ ParseValue(h[n].after[1]) =
                                          [timestamp |-> h[n].done, times |-> 2]
                        /\ n = 4 => /\ h[n].after # Nil
                                    /\ ParseValue(h[n].after[1]).times = 1

C9_Witness ==
    \E f \in Traced :
        /\ Len(hist[f]) >= 4
        /\ hist[f][1].seen = Nil
        /\ hist[f][4].done - hist[f][1].done < SECONDS_IN_HOUR
        /\ hist[f][4].done > hist[f][1].done

\* C10: a call that finds a stored value whose window has expired at its
\* clock reading returns True at once and writes nothing to redis.
C10_ExpiredStep ==
    \A w \in Workers :
        (/\ call[w].pc = "got"
         /\ call'[w].pc # "got"
         /\ call[w].r # Nil
         /\ now - ParseValue(call[w].r[1]).timestamp >= SECONDS_IN_HOUR) =>
            /\ call'[w].pc = "returned"
            /\ call'[w].ret = TRUE
            /\ redis' = redis

C10_ExpiredReadOnly == [][C10_ExpiredStep]_vars

C10_Witness ==
    \E w \in Workers :
        /\ call[w].pc = "returned"
        /\ call[w].r # Nil
        /\ now - ParseValue(call[w].r[1]).timestamp >= SECONDS_IN_HOUR
        /\ redis_get(redis, Key(call[w].filename)) = call[w].r
        /\ call[w].ret = TRUE

\* C14: a call returns by the decision table. With old the value stored when
\* it returns, t its clock reading in the window test and now its reading in
\* set_current:
\*   no value                         -> stores (now, 2), returns True
\*   t - timestamp < 1h, times = 1    -> stores (now, 2), returns False
\*   t - timestamp < 1h, times > 1    -> stores (timestamp, times - 1), True
\*   t - timestamp >= 1h              -> stores nothing, returns True
\* so it returns False exactly in the second row; other keys are untouched.
C14_ReturnStep ==
    \A w \in Workers :
        (call[w].pc # "returned" /\ call'[w].pc = "returned") =>
            LET f == call'[w].filename
                ret == call'[w].ret
                old == redis_get(redis, Key(f))
                new == redis_get(redis', Key(f))
            IN  /\ IF old = Nil
                   THEN /\ ret = TRUE
                        /\ new # Nil
                        /\ ParseValue(new[1]) = [timestamp |-> now, times |-> 2]
                   ELSE LET v == ParseValue(old[1])
                            t == call'[w].checked[1]
                            open == t - v.timestamp < SECONDS_IN_HOUR
                        IN  /\ (open /\ v.times = 1) =>
                                  /\ ret = FALSE
                                  /\ ParseValue(new[1]) = [timestamp |-> now, times |-> 2]
                            /\ (open /\ v.times > 1) =>
                                  /\ ret = TRUE
                                  /\ ParseValue(new[1]) =
                                        [timestamp |-> v.timestamp, times |-> v.times - 1]
                            /\ ~open => (ret = TRUE /\ new = old)
                            /\ ret = FALSE <=> (open /\ v.times = 1)
                /\ \A g \in Filenames \ {f} :
                      redis_get(redis', Key(g)) = redis_get(redis, Key(g))

C14_DecisionTable == [][C14_ReturnStep]_vars

C14_Witness ==
    \E w \in Workers :
        /\ call[w].pc = "returned"
        /\ call[w].ret = FALSE
        /\ call[w].checked # NoTime
        /\ now > call[w].checked[1]
        /\ HasState("g")

\* C19: with calls one after the other, a call that returned False left
\* times = 2 under its key and the next call on that key returned True.
C19_NoTwoFalse ==
    \A f \in DOMAIN hist :
        \A n \in 1..Len(hist[f]) :
            hist[f][n].ret = FALSE =>
                /\ hist[f][n].after # Nil
                /\ ParseValue(hist[f][n].after[1]).times = 2
                /\ n < Len(hist[f]) => hist[f][n + 1].ret = TRUE

C19_Witness ==
    \E f \in DOMAIN hist :
        \E n \in 1..(Len(hist[f]) - 1) :
            /\ hist[f][n].ret = FALSE
            /\ hist[f][n + 1].done > hist[f][n].done
            /\ hist[f][n + 1].done - hist[f][n].done < SECONDS_IN_HOUR

\* the window of f's stored value has expired and no call on f has a write
\* pending
ExpiredQuiet(f) ==
    /\ HasState(f)
    /\ now - Stored(f).timestamp >= SECONDS_IN_HOUR
    /\ \A w \in Workers :
          call[w].pc \in {"set_current", "set_decrement"} => call[w].filename # f

\* C18: with the clock never going back and calls one after the other, once
\* the stored window of a key has expired it stays expired: no step changes
\* the stored value and every call on the key that returns returns True.
\* ExpiredQuiet(f) in the state a step leads to
ExpiredQuietNext(f) ==
    /\ Key(f) \in DOMAIN redis'
    /\ now' - ParseValue(redis'[Key(f)]).timestamp >= SECONDS_IN_HOUR
    /\ \A w \in Workers :
          call'[w].pc \in {"set_current", "set_decrement"} => call'[w].filename # f

C18_ExpiredStep ==
    \A f \in Filenames :
        ExpiredQuiet(f) =>
            /\ ExpiredQuietNext(f)
            /\ redis'[Key(f)] = redis[Key(f)]
            /\ \A w \in Workers :
                  (/\ call[w].pc # "returned"
                   /\ call'[w].pc = "returned"
                   /\ call'[w].filename = f) => call'[w].ret = TRUE

ThirdInHour(f) ==
    /\ \E w \in Workers : call[w].pc = "returned" /\ call[w].filename = f
    /\ Len(hist[f]) >= 3
    /\ hist[f][Len(hist[f])].done - hist[f][Len(hist[f]) - 2].done < SECONDS_IN_HOUR

ReturnedFalse(f) ==
    \E w \in Workers :
        call[w].pc = "returned" /\ call[w].filename = f /\ call[w].ret = FALSE

\* C11: in every run in which, again and again, a third call on a key returns
\* within one hour of the call before the previous one, a call on that key
\* returns False again and again.
C11_EventuallyRefresh ==
    \A f \in Traced : ([]<>ThirdInHour(f)) => ([]<>ReturnedFalse(f))

(***************************************************************************)
(* Properties of the refresh gate, calls overlapping in time               *)
(***************************************************************************)
\* C12: whatever the interleaving of the reads and writes of overlapping
\* calls, the times stored under every key is 1 or 2.
C12_CounterInRange ==
    \A f \in Filenames : HasState(f) => Stored(f).times \in {1, 2}

C12_Witness ==
    \E w1, w2 \in Workers, f \in Filenames :
        /\ w1 # w2
        /\ call[w1].pc = "set_decrement" /\ call[w1].filename = f
        /\ call[w2].pc = "set_current" /\ call[w2].filename = f
        /\ HasState(f) /\ Stored(f).times = 1

\* worker w has returned from a call that read times = 2 and found the window
\* still open
ReadTwoInWindow(w) ==
    /\ call[w].pc = "returned"
    /\ call[w].r # Nil
    /\ ParseValue(call[w].r[1]).times = 2
    /\ call[w].checked # NoTime
    /\ call[w].checked[1] - ParseValue(call[w].r[1]).timestamp < SECONDS_IN_HOUR

\* C15: two overlapping calls on one key that both read the same value with
\* times = 2 inside the window both return True and leave times = 1 under the
\* unchanged timestamp: two calls, one credit.
C15_UnderCount ==
    \A w1, w2 \in Workers :
        (/\ w1 # w2
         /\ call[w1].pc = "returned" /\ call[w2].pc = "returned"
         /\ call[w1].filename = call[w2].filename
         /\ call[w1].r = call[w2].r
         /\ ReadTwoInWindow(w1) /\ ReadTwoInWindow(w2)) =>
            /\ call[w1].ret = TRUE /\ call[w2].ret = TRUE
            /\ HasState(call[w1].filename)
            /\ Stored(call[w1].filename) =
                  [timestamp |-> ParseValue(call[w1].r[1]).timestamp, times |-> 1]

C15_Witness ==
    \E w1, w2 \in Workers :
        /\ w1 # w2
        /\ call[w1].pc = "returned" /\ call[w2].pc = "returned"
        /\ call[w1].filename = call[w2].filename
        /\ call[w1].r = call[w2].r
        /\ ReadTwoInWindow(w1) /\ ReadTwoInWindow(w2)
        /\ call[w1].ret = TRUE /\ call[w2].ret = TRUE
        /\ Stored(call[w1].filename).times = 1

\* C20: under any interleaving the timestamp stored under a key never
\* decreases.
C20_TimestampStep ==
    \A f \in Filenames :
        HasState(f) =>
            ParseValue(redis'[Key(f)]).timestamp >= Stored(f).timestamp

C20_ResetNeverLost == [][C20_TimestampStep]_vars

====
